---- MODULE Spec2Model ----
(***************************************************************************)
(* Model of package logicalcluster: the value types Name (name.go) and     *)
(* Path (path.go).  A Go string is modelled as a sequence of one-character *)
(* strings.  Every operation of the package is a pure function of its      *)
(* receiver; the state machine below is a caller that constructs a value   *)
(* from a string (New, Name(v), Join, Name.Path) and then calls methods    *)
(* on it, keeping the receiver, the argument and the last result.          *)
(***************************************************************************)
EXTENDS Integers, Sequences, FiniteSets

VARIABLES kind, val, made, from, seg, op, out

vars == <<kind, val, made, from, seg, op, out>>

----------------------------------------------------------------------------
(* Bounds of the explored inputs. *)

\* longest string enumerated exhaustively as an argument of New / Name(v)
MaxLen == 3

\* longest string enumerated exhaustively as an argument of Join
MaxSegLen == 1

\* how far around the grammar's length limit the long inputs reach
Slack == 1

\* characters of the exhaustively enumerated strings
Alphabet == {"a", "0", "-", ":", "*", "_"}

----------------------------------------------------------------------------
(* Character classes of the two regular expressions. *)

Lower == {"a", "b", "c", "d", "e", "f", "g", "h", "i", "j", "k", "l", "m",
          "n", "o", "p", "q", "r", "s", "t", "u", "v", "w", "x", "y", "z"}

Digit == {"0", "1", "2", "3", "4", "5", "6", "7", "8", "9"}

\* [a-z0-9]
IsAlnum(c) == c \in Lower \cup Digit

\* [a-z0-9-]
IsAlnumHyphen(c) == IsAlnum(c) \/ c = "-"

----------------------------------------------------------------------------
(* name.go *)

\* the upper repetition count of [a-z0-9-]{0,61} in clusterNameString
clusterNameRepeat == 61

\* a slip: the second part of the pattern made optional, as in lclusterNameFmt
clusterNameRegExp_Optional(s) ==
    /\ Len(s) >= 1
    /\ IsAlnum(s[1])
    /\ Len(s) - 2 <= clusterNameRepeat
    /\ \A i \in 2..(Len(s) - 1) : IsAlnumHyphen(s[i])
    /\ IsAlnum(s[Len(s)])

\* a slip: the repetition left open, [a-z0-9-]* for [a-z0-9-]{0,61}
clusterNameRegExp_NoLimit(s) ==
    /\ Len(s) >= 2
    /\ IsAlnum(s[1])
    /\ \A i \in 2..(Len(s) - 1) : IsAlnumHyphen(s[i])
    /\ IsAlnum(s[Len(s)])

\* clusterNameRegExp.MatchString(s) for "^[a-z0-9][a-z0-9-]{0,61}[a-z0-9]$"
clusterNameRegExp(s) ==
    /\ Len(s) >= 2
    /\ IsAlnum(s[1])
    /\ Len(s) - 2 <= clusterNameRepeat
    /\ \A i \in 2..(Len(s) - 1) : IsAlnumHyphen(s[i])
    /\ IsAlnum(s[Len(s)])

\* func (n Name) IsValid() bool
NameIsValid(n) == clusterNameRegExp(n)

----------------------------------------------------------------------------
(* path.go *)

Wildcard == <<"*">>

separator == ":"

\* func New(value string) Path
New(value) == value

\* func (n Name) Path() Path
NamePath(n) == New(n)

\* a slip: strings.Index for strings.LastIndex
LastIndex_First(s) ==
    LET hits == {i \in 1..Len(s) : s[i] = separator}
    IN  IF hits = {} THEN -1
        ELSE (CHOOSE i \in hits : \A j \in hits : i <= j) - 1

\* strings.LastIndex(s, separator): 0-based index of the last separator, or -1
LastIndex(s) ==
    LET hits == {i \in 1..Len(s) : s[i] = separator}
    IN  IF hits = {} THEN -1
        ELSE (CHOOSE i \in hits : \A j \in hits : j <= i) - 1

\* func (n Path) Split() (parent Path, name string)
Split(value) ==
    LET i == LastIndex(value)
    IN  IF i < 0
        THEN [parent |-> <<>>, name |-> value]
        ELSE [parent |-> SubSeq(value, 1, i),
              name   |-> SubSeq(value, i + 2, Len(value))]

\* a slip: hasParent taken from the presence of a separator
Parent_BySeparator(value) ==
    [path |-> Split(value).parent, ok |-> LastIndex(value) >= 0]

\* func (n Path) Parent() (Path, bool)
Parent(value) ==
    LET parent == Split(value).parent
    IN  [path |-> parent, ok |-> parent # <<>>]

\* func (n Path) Base() string
Base(value) == Split(value).name

\* a slip: the test of hasParent inverted
PathName_Inverted(value) ==
    IF ~Parent(value).ok
    THEN [name |-> <<>>, ok |-> FALSE]
    ELSE [name |-> value, ok |-> TRUE]

\* func (n Path) Name() (Name, bool)
PathName(value) ==
    IF Parent(value).ok
    THEN [name |-> <<>>, ok |-> FALSE]
    ELSE [name |-> value, ok |-> TRUE]

\* a slip: the separator left out
Join_NoSeparator(value, name) ==
    IF value = <<>> THEN name ELSE value \o name

\* a slip: no special case for the empty receiver
Join_Always(value, name) == value \o <<separator>> \o name

\* func (n Path) Join(name string) Path
Join(value, name) ==
    IF value = <<>> THEN name ELSE value \o <<separator>> \o name

\* the upper repetition count of [a-z0-9-]{0,61} in lclusterNameFmt
lclusterNameRepeat == 61

\* a slip: the repetition left open, [a-z0-9-]* for [a-z0-9-]{0,61}
lclusterNameFmt_NoLimit(s, i) ==
    IF i > Len(s) \/ ~IsAlnum(s[i])
    THEN {}
    ELSE {i + 1} \cup
         {j + 1 : j \in {j \in (i + 1)..Len(s) :
                            /\ IsAlnum(s[j])
                            /\ \A k \in (i + 1)..(j - 1) : IsAlnumHyphen(s[k])}}

\* lclusterNameFmt = "[a-z0-9]([a-z0-9-]{0,61}[a-z0-9])?" matched against s
\* from position i: the set of positions right after a match
lclusterNameFmt(s, i) ==
    IF i > Len(s) \/ ~IsAlnum(s[i])
    THEN {}
    ELSE {i + 1} \cup
         {j + 1 : j \in {j \in (i + 1)..Len(s) :
                            /\ j - i - 1 <= lclusterNameRepeat
                            /\ IsAlnum(s[j])
                            /\ \A k \in (i + 1)..(j - 1) : IsAlnumHyphen(s[k])}}

\* the tail "(:" + lclusterNameFmt + ")*$" matched against s from position i
RECURSIVE lclusterTail(_, _)
lclusterTail(s, i) ==
    \/ i = Len(s) + 1
    \/ /\ i <= Len(s)
       /\ s[i] = ":"
       /\ \E j \in lclusterNameFmt(s, i + 1) : lclusterTail(s, j)

\* lclusterRegExp.MatchString(s)
lclusterRegExp(s) == \E j \in lclusterNameFmt(s, 1) : lclusterTail(s, j)

\* a slip: the wildcard forgotten
PathIsValid_NoWildcard(value) == lclusterRegExp(value)

\* func (n Path) IsValid() bool
PathIsValid(value) == value = Wildcard \/ lclusterRegExp(value)

----------------------------------------------------------------------------
(* path.Join("/clusters", value) of the Go library, as RequestPath uses it *)

clustersPrefix == <<"/", "c", "l", "u", "s", "t", "e", "r", "s">>

\* the elements of s between occurrences of c
RECURSIVE SplitOn(_, _)
SplitOn(s, c) ==
    LET hits == {i \in 1..Len(s) : s[i] = c}
    IN  IF hits = {} THEN <<s>>
        ELSE LET i == CHOOSE i \in hits : \A j \in hits : i <= j
             IN  <<SubSeq(s, 1, i - 1)>> \o SplitOn(SubSeq(s, i + 1, Len(s)), c)

\* path.Clean of a rooted path, element by element: empty and "." elements
\* are dropped, ".." drops the element before it (and itself at the root)
RECURSIVE CleanElems(_, _)
CleanElems(elems, kept) ==
    IF elems = <<>> THEN kept
    ELSE LET e == Head(elems)
         IN  IF e = <<>> \/ e = <<".">>
             THEN CleanElems(Tail(elems), kept)
             ELSE IF e = <<".", ".">>
             THEN CleanElems(Tail(elems),
                             IF kept = <<>> THEN kept
                             ELSE SubSeq(kept, 1, Len(kept) - 1))
             ELSE CleanElems(Tail(elems), Append(kept, e))

RECURSIVE SlashJoin(_)
SlashJoin(elems) ==
    IF elems = <<>> THEN <<>>
    ELSE <<"/">> \o Head(elems) \o SlashJoin(Tail(elems))

Clean(s) ==
    LET kept == CleanElems(SplitOn(s, "/"), <<>>)
    IN  IF kept = <<>> THEN <<"/">> ELSE SlashJoin(kept)

\* a slip: plain concatenation for path.Join
RequestPath_Concat(value) == clustersPrefix \o <<"/">> \o value

\* func (n Path) RequestPath() string
RequestPath(value) == Clean(clustersPrefix \o <<"/">> \o value)

----------------------------------------------------------------------------
(* The strings the caller passes in. *)

\* the inputs of the table of TestIsValidPath
TestIsValidPath ==
    {<<>>,
     <<"*">>,
     <<"e", "l", "e", "p", "h", "a", "n", "t">>,
     <<"e", "l", "e", "p", "h", "a", "n", "t", ":", "f", "o", "o">>,
     <<"e", "l", "e", "p", "h", "a", "n", "t", ":", "f", "o", "o", ":", "b", "a", "r">>,
     <<"e", "l", "e", "p", "h", "a", "n", "t", ":", "0", "a">>,
     <<"e", "l", "e", "p", "h", "a", "n", "t", ":", "b", "1", "2", "3", "4", "5", "6", "7", "8", "9", "0", "1", "2", "3", "4", "5", "6", "7", "8", "9", "0", "1", "2", "3", "4", "5", "6", "7", "8", "9", "1", "2">>,
     <<"e", "l", "e", "p", "h", "a", "n", "t", ":", "t", "e", "s", "t", "-", "t", "o", "o", "-", "l", "o", "n", "g", "-", "o", "r", "g", "-", "0", "0", "2", "0", "-", "4", "4", "7", "3", "-", "0", "0", "3", "0", "-", "a", "0", "f", "a", "-", "0", "0", "4", "0", "-", "5", "2", "7", "6", "-", "0", "0", "5", "0", "-", "s", "d", "g", "2", "-", "0", "0", "6", "0", ":", "b", "1", "2", "3", "4", "5", "6", "7", "8", "9", "0", "1", "2", "3", "4", "5", "6", "7", "8", "9", "0", "1", "2", "3", "4", "5", "6", "7", "8", "9", "1", "2">>,
     <<"e", "l", "e", "p", "h", "a", "n", "t", ":">>,
     <<"e", "l", "e", "p", "h", "a", "n", "t", ":", ":", "f", "o", "o">>,
     <<":", "e", "l", "e", "p", "h", "a", "n", "t">>,
     <<"e", "l", "e", "p", "h", "a", "n", "t", ":", "f", "ö", "ö", ":", "b", "ä", "r">>,
     <<"e", "l", "e", "p", "h", "a", "n", "t", ":", "b", "a", "r", "_", "b", "a", "r">>,
     <<"e", "l", "e", "p", "h", "a", "n", "t", "/", "b", "a", "r">>,
     <<"e", "l", "e", "p", "h", "a", "n", "t", ":", "b", "a", "r", "-">>,
     <<"e", "l", "e", "p", "h", "a", "n", "t", ":", "-", "b", "a", "r">>}

\* the inputs of the table of TestPath_Split
TestPath_Split ==
    {<<"f", "o", "o">>,
     <<"f", "o", "o", ":", "b", "a", "r">>,
     <<"f", "o", "o", ":", "b", "a", "r", ":", "b", "a", "z">>,
     <<"f", "o", "o", ":", ":", "b", "a", "z">>}

\* further inputs: upper case, underscore, digit, slash and dot, wildcard as a segment
OddInputs ==
    {<<"A">>,
     <<"a", "A">>,
     <<"_">>,
     <<"a", "_", "a">>,
     <<"0">>,
     <<"a", "0">>,
     <<"a", "/", "b">>,
     <<".", ".">>,
     <<"a", "/", ".", ".">>,
     <<"a", "/", "/", "b">>,
     <<".">>,
     <<"a", ".", "b">>,
     <<"a", ":", "*">>,
     <<"*", ":", "a">>}

\* the string of n characters c
Rep(c, n) == [i \in 1..n |-> c]

\* every string over the set chars of length at most n
Strs(chars, n) == UNION {[1..k -> chars] : k \in 0..n}

\* the longest segment lclusterNameFmt matches, and the longest Name
\* clusterNameString matches: the first and last character and the repetition
SegmentMax == lclusterNameRepeat + 2

NameMax == clusterNameRepeat + 2

\* single segments whose length is at and around the limit: all letters, and
\* hyphens between two letters
LongRuns ==
    LET lens == (SegmentMax - Slack)..(SegmentMax + Slack)
                \cup (NameMax - Slack)..(NameMax + Slack)
    IN  {Rep("a", n) : n \in lens}
        \cup {<<"a">> \o Rep("-", n - 2) \o <<"a">> : n \in lens}

Inputs == Strs(Alphabet, MaxLen) \cup TestIsValidPath \cup TestPath_Split
          \cup OddInputs \cup LongRuns

JoinArgs == Strs(Alphabet, MaxSegLen) \cup LongRuns
            \cup {<<"0">>, <<"_">>, <<"a", "-", "a">>}

----------------------------------------------------------------------------
(* The caller: construct a value, then call a method on it. *)

\* the result slots of a call that returns nothing in them
NoOut == [path |-> <<>>, str |-> <<>>, ok |-> FALSE]

Init ==
    /\ kind = "string"
    /\ val \in Inputs
    /\ made = "input"
    /\ from = <<>>
    /\ seg = <<>>
    /\ op = "none"
    /\ out = NoOut

\* p := New(v) of the string v at hand
CallNew ==
    /\ kind = "string"
    /\ kind' = "Path"
    /\ val' = New(val)
    /\ made' = "New"
    /\ from' = val
    /\ UNCHANGED <<seg, op, out>>

\* n := Name(v), the conversion of the string v at hand to the type Name
CallNameOf ==
    /\ kind = "string"
    /\ kind' = "Name"
    /\ val' = val
    /\ made' = "Name"
    /\ from' = val
    /\ UNCHANGED <<seg, op, out>>

\* p := n.Path()
CallNamePath ==
    /\ kind = "Name"
    /\ kind' = "Path"
    /\ val' = NamePath(val)
    /\ made' = "NamePath"
    /\ from' = val
    /\ seg' = <<>>
    /\ op' = "none"
    /\ out' = NoOut

\* p := p.Join(name), on a path that came from New
CallJoin(name) ==
    /\ kind = "Path"
    /\ made = "New"
    /\ val' = Join(val, name)
    /\ made' = "Join"
    /\ from' = val
    /\ seg' = name
    /\ op' = "none"
    /\ out' = NoOut
    /\ UNCHANGED kind

\* n.IsValid() on a Name
CallNameIsValid ==
    /\ kind = "Name"
    /\ op' = "NameIsValid"
    /\ out' = [NoOut EXCEPT !.ok = NameIsValid(val)]
    /\ UNCHANGED <<kind, val, made, from, seg>>

\* p.IsValid()
CallIsValid ==
    /\ kind = "Path"
    /\ op' = "IsValid"
    /\ out' = [NoOut EXCEPT !.ok = PathIsValid(val)]
    /\ UNCHANGED <<kind, val, made, from, seg>>

\* parent, name := p.Split()
CallSplit ==
    /\ kind = "Path"
    /\ op' = "Split"
    /\ out' = [NoOut EXCEPT !.path = Split(val).parent, !.str = Split(val).name]
    /\ UNCHANGED <<kind, val, made, from, seg>>

\* parent, hasParent := p.Parent()
CallParent ==
    /\ kind = "Path"
    /\ op' = "Parent"
    /\ out' = [NoOut EXCEPT !.path = Parent(val).path, !.ok = Parent(val).ok]
    /\ UNCHANGED <<kind, val, made, from, seg>>

\* name := p.Base()
CallBase ==
    /\ kind = "Path"
    /\ op' = "Base"
    /\ out' = [NoOut EXCEPT !.str = Base(val)]
    /\ UNCHANGED <<kind, val, made, from, seg>>

\* name, ok := p.Name()
CallName ==
    /\ kind = "Path"
    /\ op' = "Name"
    /\ out' = [NoOut EXCEPT !.str = PathName(val).name, !.ok = PathName(val).ok]
    /\ UNCHANGED <<kind, val, made, from, seg>>

\* s := p.RequestPath()
CallRequestPath ==
    /\ kind = "Path"
    /\ op' = "RequestPath"
    /\ out' = [NoOut EXCEPT !.str = RequestPath(val)]
    /\ UNCHANGED <<kind, val, made, from, seg>>

Next ==
    \/ CallNew
    \/ CallNameOf
    \/ CallNamePath
    \/ \E name \in JoinArgs : CallJoin(name)
    \/ CallNameIsValid
    \/ CallIsValid
    \/ CallSplit
    \/ CallParent
    \/ CallBase
    \/ CallName
    \/ CallRequestPath

Spec == Init /\ [][Next]_vars

TypeOK ==
    /\ kind \in {"string", "Path", "Name"}
    /\ made \in {"input", "New", "Name", "NamePath", "Join"}
    /\ op \in {"none", "NameIsValid", "IsValid", "Split", "Parent", "Base",
               "Name", "RequestPath"}
    /\ out.ok \in BOOLEAN

----------------------------------------------------------------------------
(* Vocabulary of the properties, stated without the regular expressions. *)

HasSeparator(s) == \E i \in 1..Len(s) : s[i] = ":"

\* the segments of a path string: the pieces between its ':' characters
Segments(s) == SplitOn(s, ":")

\* the character rules of one segment: non-empty, lower-case letters, digits
\* and hyphens only, first and last character a letter or digit
SegmentChars(g) ==
    /\ g # <<>>
    /\ \A i \in 1..Len(g) : g[i] \in Lower \cup Digit \cup {"-"}
    /\ g[1] \in Lower \cup Digit
    /\ g[Len(g)] \in Lower \cup Digit

AllSegmentChars(s) == \A k \in 1..Len(Segments(s)) : SegmentChars(Segments(s)[k])

AllSegmentsWithin(s, n) == \A k \in 1..Len(Segments(s)) : Len(Segments(s)[k]) <= n

\* a single valid path segment, by the code's own validity
ValidSegment(s) == ~HasSeparator(s) /\ s # <<"*">> /\ PathIsValid(s)

----------------------------------------------------------------------------
(* C1 *)

----------------------------------------------------------------------------
(* C2 *)

\* C2: Split cuts at the last ':': without a ':' it returns ("", v), otherwise
\* (parent, name) with parent + ":" + name = v and no ':' in name; "foo::baz"
\* gives ("foo:", "baz") and "" gives ("", "").
C2_SplitAtLastSeparator ==
    op = "Split" =>
        /\ IF HasSeparator(val)
           THEN /\ out.path \o <<":">> \o out.str = val
                /\ ~HasSeparator(out.str)
           ELSE /\ out.path = <<>>
                /\ out.str = val
        /\ val = <<"f", "o", "o", ":", ":", "b", "a", "z">> =>
               /\ out.path = <<"f", "o", "o", ":">>
               /\ out.str = <<"b", "a", "z">>
        /\ val = <<>> => (out.path = <<>> /\ out.str = <<>>)

\* Split has cut a path with two ':' in a row
C2_Witness ==
    /\ op = "Split"
    /\ \E i \in 1..(Len(val) - 1) : val[i] = ":" /\ val[i + 1] = ":"
    /\ out.str # <<>>

----------------------------------------------------------------------------
(* C3 *)

\* C3: for every path p and every seg without ':', p.Join(seg).Split() = (p, seg).
C3_JoinThenSplit ==
    (made = "Join" /\ op = "Split" /\ ~HasSeparator(seg)) =>
        (out.path = from /\ out.str = seg)

\* Split has been called on the Join of an invalid path and the empty segment
C3_Witness ==
    /\ made = "Join"
    /\ op = "Split"
    /\ seg = <<>>
    /\ from # <<>>
    /\ ~PathIsValid(from)
    /\ out.path = from

----------------------------------------------------------------------------
(* C4 *)

\* C4 as stated: p.Name() returns (Name(p.String()), true) iff p's string has
\* no ':', and ("", false) for every p whose string has a ':'.
C4_NameIffNoSeparator ==
    op = "Name" =>
        IF HasSeparator(val)
        THEN out.str = <<>> /\ ~out.ok
        ELSE out.str = val /\ out.ok

\* C4 amended: p.Name() returns (Name(p.String()), true) iff nothing stands
\* before the last ':' of p's string (it has no ':', or its only ':' is its
\* first character), and ("", false) otherwise.
C4_NameIffNothingBeforeLastSeparator ==
    op = "Name" =>
        IF \/ ~HasSeparator(val)
           \/ (val[1] = ":" /\ ~HasSeparator(Tail(val)))
        THEN out.str = val /\ out.ok
        ELSE out.str = <<>> /\ ~out.ok

\* Name() has succeeded on a path that starts with its only ':'
C4_Witness ==
    /\ op = "Name"
    /\ Len(val) >= 2
    /\ val[1] = ":"
    /\ out.ok
    /\ out.str = val

----------------------------------------------------------------------------
(* C5 *)

\* C5: for every valid Name n, n.Path().Name() returns (n, true).
C5_NamePathName ==
    (made = "NamePath" /\ op = "Name" /\ NameIsValid(from)) =>
        (out.str = from /\ out.ok)

\* Name() has been called on the Path of a valid Name
C5_Witness ==
    /\ made = "NamePath"
    /\ op = "Name"
    /\ NameIsValid(from)
    /\ out.ok

----------------------------------------------------------------------------
(* C6 *)

\* C6 as stated: Name.IsValid() is true iff the string meets the character
\* rules of a segment, a single letter or digit included, and it agrees with
\* New(s).IsValid() on every s without ':' other than "*".
C6_NameValidIffSegment ==
    op = "NameIsValid" =>
        /\ out.ok <=> SegmentChars(val)
        /\ (~HasSeparator(val) /\ val # <<"*">>) => (out.ok <=> PathIsValid(val))

\* C6 amended: Name.IsValid() is true iff the string meets the character rules
\* of a segment and is 2 to 63 characters long, and it agrees with
\* New(s).IsValid() on every s without ':' other than "*" whose length is not 1.
C6_NameValidIffSegment2To63 ==
    op = "NameIsValid" =>
        /\ out.ok <=> (SegmentChars(val) /\ Len(val) >= 2 /\ Len(val) <= 63)
        /\ (~HasSeparator(val) /\ val # <<"*">> /\ Len(val) # 1) =>
               (out.ok <=> PathIsValid(val))

\* Name.IsValid() has rejected a single lower-case letter or digit
C6_Witness ==
    /\ op = "NameIsValid"
    /\ Len(val) = 1
    /\ val[1] \in Lower \cup Digit
    /\ ~out.ok

----------------------------------------------------------------------------
(* C7 *)

----------------------------------------------------------------------------
(* C8 *)

\* C8: every valid Name is a valid Path, and Name.IsValid() rejects every
\* string of length 1 and every string longer than 63 characters.
C8_NameStricterThanPath ==
    /\ (made = "NamePath" /\ op = "IsValid" /\ NameIsValid(from)) => out.ok
    /\ (op = "NameIsValid" /\ (Len(val) = 1 \/ Len(val) > 63)) => ~out.ok

\* the strictness: the Path of a one-character Name that is not a valid Name
\* has been found valid
C8_Witness ==
    /\ made = "NamePath"
    /\ op = "IsValid"
    /\ Len(from) = 1
    /\ ~NameIsValid(from)
    /\ out.ok

----------------------------------------------------------------------------
(* C9 *)

\* C9: RequestPath() is "/clusters" for the empty path and "/clusters/" + p
\* for every valid p, the wildcard included.
C9_RequestPath ==
    op = "RequestPath" =>
        /\ val = <<>> => out.str = <<"/", "c", "l", "u", "s", "t", "e", "r", "s">>
        /\ PathIsValid(val) =>
               out.str = <<"/", "c", "l", "u", "s", "t", "e", "r", "s", "/">> \o val

\* RequestPath() has rendered a valid path of several segments
C9_Witness ==
    /\ op = "RequestPath"
    /\ PathIsValid(val)
    /\ HasSeparator(val)
    /\ Len(out.str) = Len(val) + 10

----------------------------------------------------------------------------
(* C10 *)

\* C10: a path with a ':' is valid iff its Parent() is a valid path other than
\* the wildcard and its Base() is a single valid segment; so joining a valid
\* segment to a valid non-wildcard or empty path gives a valid path, and
\* joining anything to the wildcard never does.
C10_ValidityIsStructural ==
    /\ (op = "IsValid" /\ HasSeparator(val)) =>
           (out.ok <=> /\ PathIsValid(Parent(val).path)
                       /\ Parent(val).path # Wildcard
                       /\ ValidSegment(Base(val)))
    /\ (made = "Join" /\ op = "IsValid" /\ ValidSegment(seg)
           /\ (from = <<>> \/ (PathIsValid(from) /\ from # Wildcard))) => out.ok
    /\ (made = "Join" /\ op = "IsValid" /\ from = Wildcard) => ~out.ok

\* IsValid has accepted the Join of a valid path of several segments and a
\* valid segment
C10_Witness ==
    /\ made = "Join"
    /\ op = "IsValid"
    /\ HasSeparator(from)
    /\ PathIsValid(from)
    /\ ValidSegment(seg)
    /\ out.ok

====
